---- MODULE Spec2Model ----
(***************************************************************************)
(* Model of the HEIC -> WebP batch converter (src/src/main.cpp).           *)
(* Strings are tuples of one-character strings, paths are tuples of names. *)
(* The codec libraries and the filesystem calls whose result the program   *)
(* cannot determine are nondeterministic choices over their outcomes.      *)
(***************************************************************************)
EXTENDS Integers, Sequences, FiniteSets, TLC

VARIABLES argv, tree, opts, pc, files, idx, cur, success_count, error_count,
          exit_status, end_reason, made_dirs, written, calls, log,
          discovered, summary

vars == <<argv, tree, opts, pc, files, idx, cur, success_count, error_count,
          exit_status, end_reason, made_dirs, written, calls, log,
          discovered, summary>>

----------------------------------------------------------------------------
(* Bounds *)

\* number of command-line arguments after the program name
MaxArgs == 3
\* nesting depth of the directory trees drawn for discovery
MaxDepth == 2

----------------------------------------------------------------------------
(* Characters and strings *)

Uppers == <<"A","B","C","D","E","F","G","H","I","J","K","L","M",
            "N","O","P","Q","R","S","T","U","V","W","X","Y","Z">>
Lowers == <<"a","b","c","d","e","f","g","h","i","j","k","l","m",
            "n","o","p","q","r","s","t","u","v","w","x","y","z">>
Digits == <<"0","1","2","3","4","5","6","7","8","9">>

\* std::tolower in the "C" locale
tolower(c) ==
  IF \E i \in 1..Len(Uppers) : Uppers[i] = c
  THEN Lowers[CHOOSE i \in 1..Len(Uppers) : Uppers[i] = c]
  ELSE c

ToLowerStr(s) == [i \in 1..Len(s) |-> tolower(s[i])]

IsDigit(c) == \E i \in 1..10 : Digits[i] = c
DigitVal(c) == (CHOOSE i \in 1..10 : Digits[i] = c) - 1

DOT_HEIC == <<".","h","e","i","c">>
DOT_HEIF == <<".","h","e","i","f">>
DOT_WEBP == <<".","w","e","b","p">>

----------------------------------------------------------------------------
(* std::filesystem::path decomposition *)

filename(path) == IF path = <<>> THEN <<>> ELSE path[Len(path)]
parent_path(path) == IF path = <<>> THEN <<>> ELSE SubSeq(path, 1, Len(path) - 1)

\* position of the dot that starts the extension, 0 when there is none
ExtPos(name) ==
  IF name = <<".">> \/ name = <<".", ".">> THEN 0
  ELSE LET dots == {i \in 1..Len(name) : name[i] = "."}
       IN IF dots = {} THEN 0
          ELSE LET p == CHOOSE i \in dots : \A j \in dots : j <= i
               IN IF p = 1 THEN 0 ELSE p

extension(path) ==
  LET name == filename(path) p == ExtPos(name)
  IN IF p = 0 THEN <<>> ELSE SubSeq(name, p, Len(name))

stem(path) ==
  LET name == filename(path) p == ExtPos(name)
  IN IF p = 0 THEN name ELSE SubSeq(name, 1, p - 1)

----------------------------------------------------------------------------
(* std::stoi *)

INT_MAX == 2147483647
StoiLimit == 214748364

RECURSIVE StoiDigits(_, _, _, _)
\* accumulates the digit run of s from position i; acc carries the sign
StoiDigits(s, i, neg, acc) ==
  IF i > Len(s) \/ ~IsDigit(s[i]) THEN [tag |-> "ok", val |-> acc]
  ELSE LET d == DigitVal(s[i])
       IN IF neg
          THEN IF acc > -StoiLimit \/ (acc = -StoiLimit /\ d <= 8)
               THEN StoiDigits(s, i + 1, neg, acc * 10 - d)
               ELSE [tag |-> "out_of_range", val |-> 0]
          ELSE IF acc < StoiLimit \/ (acc = StoiLimit /\ d <= 7)
               THEN StoiDigits(s, i + 1, neg, acc * 10 + d)
               ELSE [tag |-> "out_of_range", val |-> 0]

stoi(s) ==
  LET signed == Len(s) >= 1 /\ s[1] \in {"-", "+"}
      neg    == Len(s) >= 1 /\ s[1] = "-"
      start  == IF signed THEN 2 ELSE 1
  IN IF start > Len(s) \/ ~IsDigit(s[start])
     THEN [tag |-> "invalid_argument", val |-> 0]
     ELSE StoiDigits(s, start, neg, 0)

----------------------------------------------------------------------------
(* Options and parse_args *)

DefaultOptions ==
  [input |-> <<>>, output_dir |-> <<>>, quality |-> 85,
   recursive |-> FALSE, verbose |-> FALSE]

T_h == <<"-","h">>
T_help == <<"-","-","h","e","l","p">>
T_o == <<"-","o">>
T_q == <<"-","q">>
T_r == <<"-","r">>
T_v == <<"-","v">>
T_neg5 == <<"-","5">>
T_50 == <<"5","0">>
T_big == <<"9","9","9","9","9","9","9","9","9","9","9">>
T_photos == <<"p","h","o","t","o","s">>
T_aheic == <<"a",".","h","e","i","c">>
T_ntxt == <<"n",".","t","x","t">>
T_out == <<"o","u","t">>

\* status of a process ended by std::terminate (SIGABRT) as the shell reports it
EXIT_ABORT == 134

Parsed(o) == [kind |-> "opts", code |-> 0, why |-> "parsed", opts |-> o]
Exited(c, w, o) == [kind |-> "exit", code |-> c, why |-> w, opts |-> o]
Thrown(w, o) == [kind |-> "throw", code |-> EXIT_ABORT, why |-> w, opts |-> o]

RECURSIVE ParseFrom(_, _, _)
\* the loop of parse_args; args is argv[1..argc-1], i the loop index
ParseFrom(args, i, o) ==
  IF i > Len(args) THEN Parsed(o)
  ELSE LET arg == args[i]
       IN IF arg = T_h \/ arg = T_help THEN Exited(0, "help", o)
          ELSE IF arg = T_o \/ arg = <<"-","-","o","u","t","p","u","t">>
          THEN IF i + 1 <= Len(args)
               THEN ParseFrom(args, i + 2, [o EXCEPT !.output_dir = args[i + 1]])
               ELSE Exited(1, "missing_argument", o)
          ELSE IF arg = T_q \/ arg = <<"-","-","q","u","a","l","i","t","y">>
          THEN IF i + 1 <= Len(args)
               THEN LET r == stoi(args[i + 1])
                    IN IF r.tag # "ok" THEN Thrown(r.tag, o)
                       ELSE IF r.val < 1 \/ r.val > 100
                            THEN Exited(1, "bad_quality", [o EXCEPT !.quality = r.val])
                            ELSE ParseFrom(args, i + 2, [o EXCEPT !.quality = r.val])
               ELSE Exited(1, "missing_argument", o)
          ELSE IF arg = T_r \/ arg = <<"-","-","r","e","c","u","r","s","i","v","e">>
          THEN ParseFrom(args, i + 1, [o EXCEPT !.recursive = TRUE])
          ELSE IF arg = T_v \/ arg = <<"-","-","v","e","r","b","o","s","e">>
          THEN ParseFrom(args, i + 1, [o EXCEPT !.verbose = TRUE])
          ELSE IF Len(arg) >= 1 /\ arg[1] = "-"
          THEN Exited(1, "unknown_option", o)
          ELSE ParseFrom(args, i + 1, [o EXCEPT !.input = arg])

parse_args(args) == ParseFrom(args, 1, DefaultOptions)

----------------------------------------------------------------------------
(* The filesystem: a listing of entries in enumeration order *)

Entry(p, k) == [path |-> p, kind |-> k]

PhotosDir == <<T_photos>>
SubName == <<"d">>

\* entries of the working directory
CwdEntries ==
  << Entry(<<T_photos>>, "dir"), Entry(<<T_aheic>>, "file"), Entry(<<T_ntxt>>, "file") >>

\* first candidate entry of a directory
XSpecs ==
  { [name |-> <<"a",".","h","e","i","c">>, kind |-> "file"],
    [name |-> <<"a",".","b",".","H","e","I","f">>, kind |-> "file"],
    [name |-> <<"a",".","h","e","i","c",".","t","x","t">>, kind |-> "file"],
    [name |-> <<".","h","e","i","c">>, kind |-> "file"],
    [name |-> <<"a",".","h","e","i","c">>, kind |-> "other"],
    [name |-> <<"a",".","h","e","i","f">>, kind |-> "dir"] }

\* last candidate entry of a directory
YSpecs ==
  { [name |-> <<"b",".","H","E","I","C">>, kind |-> "file"],
    [name |-> <<"b",".","t","x","t">>, kind |-> "file"],
    [name |-> <<"b",".","h","e","i","f">>, kind |-> "other"] }

RECURSIVE TreeSet(_, _, _, _)
\* the listings of a directory nested d levels deep
TreeSet(dir, d, xs, ys) ==
  IF d = 0 THEN { <<>> }
  ELSE { <<Entry(Append(dir, x.name), x.kind)>>
         \o (IF d > 1 THEN <<Entry(Append(dir, SubName), "dir")>> \o sub ELSE <<>>)
         \o <<Entry(Append(dir, y.name), y.kind)>> :
         x \in xs, y \in ys, sub \in TreeSet(Append(dir, SubName), d - 1, xs, ys) }

AllTrees ==
  UNION { { CwdEntries \o t : t \in TreeSet(PhotosDir, d, XSpecs, YSpecs) } : d \in 0..MaxDepth }

\* the directory contents the batch runs are started on
MainTrees ==
  UNION { { CwdEntries \o t :
            t \in TreeSet(PhotosDir, d,
                          { [name |-> <<"a",".","b",".","H","e","I","f">>, kind |-> "file"] },
                          { [name |-> <<"b",".","t","x","t">>, kind |-> "file"],
                            [name |-> <<"b",".","H","E","I","C">>, kind |-> "file"] }) } : d \in 0..2 }

Kind(fs, dirs, path) ==
  IF \E i \in 1..Len(fs) : fs[i].path = path
  THEN fs[CHOOSE i \in 1..Len(fs) : fs[i].path = path].kind
  ELSE IF path \in dirs THEN "dir" ELSE "none"

exists(fs, dirs, path) == Kind(fs, dirs, path) # "none"
is_directory(fs, dirs, path) == Kind(fs, dirs, path) = "dir"
is_regular_file(fs, dirs, path) == Kind(fs, dirs, path) = "file"

----------------------------------------------------------------------------
(* Discovery and output naming *)

is_heic_file(fs, path) ==
  IF ~is_regular_file(fs, {}, path) THEN FALSE
  ELSE LET ext == ToLowerStr(extension(path))
       IN ext = DOT_HEIC \/ ext = DOT_HEIF

\* fs::directory_iterator(dir): the immediate children, in listing order
DirEntries(fs, dir) ==
  SelectSeq(fs, LAMBDA e : Len(e.path) = Len(dir) + 1 /\ parent_path(e.path) = dir)

RECURSIVE RecEntriesFrom(_, _, _)
\* fs::recursive_directory_iterator: pre-order, descending into directories
RecEntriesFrom(fs, ents, i) ==
  IF i > Len(ents) THEN <<>>
  ELSE <<ents[i]>>
       \o (IF ents[i].kind = "dir"
           THEN RecEntriesFrom(fs, DirEntries(fs, ents[i].path), 1) ELSE <<>>)
       \o RecEntriesFrom(fs, ents, i + 1)

RecDirEntries(fs, dir) == RecEntriesFrom(fs, DirEntries(fs, dir), 1)

PathsOf(ents) == [i \in 1..Len(ents) |-> ents[i].path]

\* variant: the recursive flag is ignored
find_heic_files_flat(fs, dir, recursive) ==
  PathsOf(SelectSeq(DirEntries(fs, dir), LAMBDA e : is_heic_file(fs, e.path)))

find_heic_files(fs, dir, recursive) ==
  LET ents == IF recursive THEN RecDirEntries(fs, dir) ELSE DirEntries(fs, dir)
  IN PathsOf(SelectSeq(ents, LAMBDA e : is_heic_file(fs, e.path)))

get_output_path(input, output_dir) ==
  LET dir == IF output_dir = <<>> THEN parent_path(input) ELSE <<output_dir>>
  IN Append(dir, stem(input) \o DOT_WEBP)

----------------------------------------------------------------------------
(* The run of main *)

Tokens ==
  { T_h, T_o, T_q, T_r, T_v, T_neg5, T_50, T_big, T_photos, T_aheic, T_ntxt, T_out }

RECURSIVE SeqsUpTo(_, _)
SeqsUpTo(S, n) ==
  IF n = 0 THEN { <<>> }
  ELSE LET shorter == SeqsUpTo(S, n - 1)
       IN shorter \cup { Append(q, t) : q \in { r \in shorter : Len(r) = n - 1 }, t \in S }

RUNNING == -1
NoCur == [src |-> <<>>, dst |-> <<>>]
NoSummary == [printed |-> FALSE, success |-> 0, total |-> 0]

input_path == <<opts.input>>

InitCommon ==
  /\ opts = DefaultOptions
  /\ files = <<>>
  /\ idx = 1
  /\ cur = NoCur
  /\ success_count = 0
  /\ error_count = 0
  /\ exit_status = RUNNING
  /\ end_reason = "none"
  /\ made_dirs = {}
  /\ written = <<>>
  /\ calls = <<>>
  /\ log = <<>>
  /\ discovered = FALSE
  /\ summary = NoSummary

Init ==
  /\ argv \in SeqsUpTo(Tokens, MaxArgs)
  /\ tree \in MainTrees
  /\ pc = "start"
  /\ InitCommon

\* return from main, exit() or std::terminate
Finish(status, why) ==
  /\ pc' = "done"
  /\ exit_status' = status
  /\ end_reason' = why

ParseArgs ==
  /\ pc = "start"
  /\ IF Len(argv) < 1
     THEN Finish(1, "no_input") /\ UNCHANGED opts
     ELSE LET r == parse_args(argv)
          IN IF r.kind # "opts"
             THEN Finish(r.code, r.why) /\ UNCHANGED opts
             ELSE IF r.opts.input = <<>>
                  THEN Finish(1, "no_input") /\ opts' = r.opts
                  ELSE /\ opts' = r.opts
                       /\ pc' = "check_input"
                       /\ UNCHANGED <<exit_status, end_reason>>
  /\ UNCHANGED <<argv, tree, files, idx, cur, success_count, error_count,
                 made_dirs, written, calls, log, discovered, summary>>

\* variant: the output directory is created before the input is looked up
CheckInput_mkdir_first ==
  /\ pc = "check_input"
  /\ made_dirs' = IF opts.output_dir = <<>> THEN made_dirs
                  ELSE made_dirs \cup { <<opts.output_dir>> }
  /\ IF ~exists(tree, made_dirs, input_path)
     THEN Finish(1, "not_found")
     ELSE pc' = "mkdir" /\ UNCHANGED <<exit_status, end_reason>>
  /\ UNCHANGED <<argv, tree, opts, files, idx, cur, success_count, error_count,
                 written, calls, log, discovered, summary>>

CheckInput ==
  /\ pc = "check_input"
  /\ IF ~exists(tree, made_dirs, input_path)
     THEN Finish(1, "not_found")
     ELSE pc' = "mkdir" /\ UNCHANGED <<exit_status, end_reason>>
  /\ UNCHANGED <<argv, tree, opts, files, idx, cur, success_count, error_count,
                 made_dirs, written, calls, log, discovered, summary>>

\* variant: a failure to create the directory is ignored
CreateOutputDir_nothrow ==
  /\ pc = "mkdir"
  /\ pc' = "discover"
  /\ IF opts.output_dir # <<>> /\ Kind(tree, made_dirs, <<opts.output_dir>>) = "none"
     THEN \/ made_dirs' = made_dirs \cup { <<opts.output_dir>> }
          \/ UNCHANGED made_dirs
     ELSE UNCHANGED made_dirs
  /\ UNCHANGED <<argv, tree, opts, files, idx, cur, success_count, error_count,
                 exit_status, end_reason, written, calls, log, discovered, summary>>

\* fs::create_directories throws filesystem_error when it cannot create
CreateOutputDir ==
  /\ pc = "mkdir"
  /\ IF opts.output_dir = <<>>
     THEN pc' = "discover" /\ UNCHANGED <<exit_status, end_reason, made_dirs>>
     ELSE LET k == Kind(tree, made_dirs, <<opts.output_dir>>)
          IN IF k = "dir"
             THEN pc' = "discover" /\ UNCHANGED <<exit_status, end_reason, made_dirs>>
             ELSE IF k # "none"
             THEN Finish(EXIT_ABORT, "mkdir_failed") /\ UNCHANGED made_dirs
             ELSE \/ /\ made_dirs' = made_dirs \cup { <<opts.output_dir>> }
                     /\ pc' = "discover"
                     /\ UNCHANGED <<exit_status, end_reason>>
                  \/ Finish(EXIT_ABORT, "mkdir_failed") /\ UNCHANGED made_dirs
  /\ UNCHANGED <<argv, tree, opts, files, idx, cur, success_count, error_count,
                 written, calls, log, discovered, summary>>

\* variant: a single file is kept only when it passes is_heic_file
Discover_classify_single ==
  /\ pc = "discover"
  /\ IF is_directory(tree, made_dirs, input_path)
     THEN LET found == find_heic_files(tree, input_path, opts.recursive)
          IN /\ files' = found
             /\ discovered' = TRUE
             /\ IF found = <<>>
                THEN Finish(0, "empty")
                ELSE pc' = "loop" /\ UNCHANGED <<exit_status, end_reason>>
     ELSE /\ files' = IF is_heic_file(tree, input_path)
                      THEN Append(files, input_path) ELSE files
          /\ pc' = "loop"
          /\ UNCHANGED <<exit_status, end_reason, discovered>>
  /\ UNCHANGED <<argv, tree, opts, idx, cur, success_count, error_count,
                 made_dirs, written, calls, log, summary>>

Discover ==
  /\ pc = "discover"
  /\ IF is_directory(tree, made_dirs, input_path)
     THEN LET found == find_heic_files(tree, input_path, opts.recursive)
          IN /\ files' = found
             /\ discovered' = TRUE
             /\ IF found = <<>>
                THEN Finish(0, "empty")
                ELSE pc' = "loop" /\ UNCHANGED <<exit_status, end_reason>>
     ELSE /\ files' = Append(files, input_path)
          /\ pc' = "loop"
          /\ UNCHANGED <<exit_status, end_reason, discovered>>
  /\ UNCHANGED <<argv, tree, opts, idx, cur, success_count, error_count,
                 made_dirs, written, calls, log, summary>>

BeginFile ==
  /\ pc = "loop"
  /\ idx <= Len(files)
  /\ cur' = [src |-> files[idx], dst |-> get_output_path(files[idx], opts.output_dir)]
  /\ calls' = Append(calls, [src |-> cur'.src, dst |-> cur'.dst, result |-> "running"])
  /\ pc' = "decode"
  /\ UNCHANGED <<argv, tree, opts, files, idx, success_count, error_count,
                 exit_status, end_reason, made_dirs, written, log,
                 discovered, summary>>

Event(op, ok) == [op |-> op, src |-> cur.src, ok |-> ok]

\* variant: a failed conversion is not counted
Return_uncounted_failure(ok) ==
  /\ calls' = [calls EXCEPT ![Len(calls)].result = IF ok THEN "ok" ELSE "failed"]
  /\ success_count' = IF ok THEN success_count + 1 ELSE success_count
  /\ error_count' = error_count
  /\ idx' = idx + 1
  /\ cur' = NoCur
  /\ pc' = "loop"

\* convert_heic_to_webp returns ok; the loop body counts it and moves on
Return(ok) ==
  /\ calls' = [calls EXCEPT ![Len(calls)].result = IF ok THEN "ok" ELSE "failed"]
  /\ success_count' = IF ok THEN success_count + 1 ELSE success_count
  /\ error_count' = IF ok THEN error_count ELSE error_count + 1
  /\ idx' = idx + 1
  /\ cur' = NoCur
  /\ pc' = "loop"

Decode ==
  /\ pc = "decode"
  /\ \E outcome \in {"ok", "read_failed", "no_primary_handle", "decode_failed"} :
       /\ log' = Append(log, Event("decode", outcome = "ok"))
       /\ IF outcome = "ok"
          THEN /\ pc' = "encode"
               /\ UNCHANGED <<calls, success_count, error_count, idx, cur>>
          ELSE Return(FALSE)
  /\ UNCHANGED <<argv, tree, opts, files, exit_status, end_reason, made_dirs,
                 written, discovered, summary>>

\* variant: a zero-length encoding does not stop the conversion
Encode_unchecked ==
  /\ pc = "encode"
  /\ \E webp_size_zero \in BOOLEAN :
       /\ log' = Append(log, Event("encode", ~webp_size_zero))
       /\ pc' = "open"
       /\ UNCHANGED <<calls, success_count, error_count, idx, cur>>
  /\ UNCHANGED <<argv, tree, opts, files, exit_status, end_reason, made_dirs,
                 written, discovered, summary>>

Encode ==
  /\ pc = "encode"
  /\ \E webp_size_zero \in BOOLEAN :
       /\ log' = Append(log, Event("encode", ~webp_size_zero))
       /\ IF webp_size_zero
          THEN Return(FALSE)
          ELSE /\ pc' = "open"
               /\ UNCHANGED <<calls, success_count, error_count, idx, cur>>
  /\ UNCHANGED <<argv, tree, opts, files, exit_status, end_reason, made_dirs,
                 written, discovered, summary>>

SetFile(w, path, content) ==
  [p \in DOMAIN w \cup {path} |-> IF p = path THEN content ELSE w[p]]

OpenOutput ==
  /\ pc = "open"
  /\ \E opened \in BOOLEAN :
       /\ log' = Append(log, Event("open", opened))
       /\ IF opened
          THEN /\ written' = SetFile(written, cur.dst, "empty")
               /\ pc' = "write"
               /\ UNCHANGED <<calls, success_count, error_count, idx, cur>>
          ELSE /\ Return(FALSE)
               /\ UNCHANGED written
  /\ UNCHANGED <<argv, tree, opts, files, exit_status, end_reason, made_dirs,
                 discovered, summary>>

\* out.write and out.close: the stream state is not examined afterwards
WriteOutput ==
  /\ pc = "write"
  /\ \E stream_good \in BOOLEAN :
       /\ log' = Append(log, Event("write", stream_good))
       /\ written' = SetFile(written, cur.dst, IF stream_good THEN "complete" ELSE "partial")
       /\ IF opts.verbose
          THEN /\ pc' = "size"
               /\ UNCHANGED <<calls, success_count, error_count, idx, cur>>
          ELSE Return(TRUE)
  /\ UNCHANGED <<argv, tree, opts, files, exit_status, end_reason, made_dirs,
                 discovered, summary>>

\* fs::file_size(input_path) throws filesystem_error when the source is gone
ReportSize ==
  /\ pc = "size"
  /\ \E size_known \in BOOLEAN :
       /\ log' = Append(log, Event("file_size", size_known))
       /\ IF size_known
          THEN Return(TRUE) /\ UNCHANGED <<exit_status, end_reason>>
          ELSE /\ Finish(EXIT_ABORT, "file_size_threw")
               /\ UNCHANGED <<calls, success_count, error_count, idx, cur>>
  /\ UNCHANGED <<argv, tree, opts, files, made_dirs, written, discovered, summary>>

Summary ==
  /\ pc = "loop"
  /\ idx > Len(files)
  /\ summary' = [printed |-> TRUE, success |-> success_count, total |-> Len(files)]
  /\ Finish(IF error_count > 0 THEN 1 ELSE 0, "summary")
  /\ UNCHANGED <<argv, tree, opts, files, idx, cur, success_count, error_count,
                 made_dirs, written, calls, log, discovered>>

Next ==
  \/ ParseArgs
  \/ CheckInput
  \/ CreateOutputDir
  \/ Discover
  \/ BeginFile
  \/ Decode
  \/ Encode
  \/ OpenOutput
  \/ WriteOutput
  \/ ReportSize
  \/ Summary

Spec == Init /\ [][Next]_vars

----------------------------------------------------------------------------
(* Discovery on its own: main has reached line 256 *)

InitDiscover ==
  /\ tree \in AllTrees
  /\ \E rec \in BOOLEAN :
       /\ argv = IF rec THEN <<T_photos, T_r>> ELSE <<T_photos>>
       /\ opts = [DefaultOptions EXCEPT !.input = T_photos, !.recursive = rec]
  /\ pc = "discover"
  /\ files = <<>> /\ idx = 1 /\ cur = NoCur
  /\ success_count = 0 /\ error_count = 0
  /\ exit_status = RUNNING /\ end_reason = "none"
  /\ made_dirs = {} /\ written = <<>> /\ calls = <<>> /\ log = <<>>
  /\ discovered = FALSE /\ summary = NoSummary

NextDiscover == Discover

SpecDiscover == InitDiscover /\ [][NextDiscover]_vars

----------------------------------------------------------------------------
(* Properties *)

Range(q) == { q[i] : i \in 1..Len(q) }

InLoop == pc \in {"loop", "decode", "encode", "open", "write", "size"}
PastDiscovery == InLoop \/ (pc = "done" /\ end_reason \in {"empty", "summary", "file_size_threw"})
Returned(result) == { i \in 1..Len(calls) : calls[i].result = result }
EventsOf(src) == SelectSeq(log, LAMBDA e : e.src = src)

\* C1: once the batch loop has been entered, the run ends only after
\* convert_heic_to_webp has been invoked exactly once for every discovered
\* file, in discovery order, each with the destination of its own source.
C1_EveryFileAttempted ==
  (pc = "done" /\ files # <<>>) =>
    /\ Len(calls) = Len(files)
    /\ \A i \in 1..Len(calls) :
         /\ calls[i].src = files[i]
         /\ calls[i].dst = get_output_path(files[i], opts.output_dir)

\* C2: every run ends with exit code 0 (all attempted files converted, or an
\* empty directory) or with exit code 1 (a file failed, the input does not
\* exist, the quality is out of range, no input was given); nothing else.
\* Command lines that are not well formed (help requested, unknown option,
\* missing or non-numeric option value) are left out of the statement.
C2_ExitCodes ==
  (pc = "done" /\ end_reason \notin {"help", "unknown_option", "missing_argument",
                                     "invalid_argument"}) =>
    \/ /\ exit_status = 0
       /\ \/ end_reason = "empty"
          \/ end_reason = "summary" /\ Returned("ok") = 1..Len(files)
    \/ /\ exit_status = 1
       /\ \/ end_reason = "summary" /\ Returned("failed") # {}
          \/ end_reason \in {"not_found", "bad_quality", "no_input"}

\* C3: the counters equal the numbers of returned successes and failures,
\* their sum is the number of files attempted so far, and at the summary
\* line it is the number of discovered files.
C3_CountsMatchResults ==
  /\ success_count = Cardinality(Returned("ok"))
  /\ error_count = Cardinality(Returned("failed"))
  /\ success_count + error_count = idx - 1
  /\ summary.printed =>
       /\ success_count + error_count = Len(files)
       /\ summary.success = success_count
       /\ summary.total = Len(files)

C3_Witness ==
  summary.printed /\ success_count >= 1 /\ error_count >= 1

\* C4: a run that ends with a fatal error (no input, quality out of range,
\* input not found) has a non-zero status and has discovered nothing, called
\* no codec, written nothing, created no directory and printed no summary.
C4_FatalBeforeFileSet ==
  (pc = "done" /\ end_reason \in {"no_input", "bad_quality", "out_of_range", "not_found"}) =>
    /\ exit_status # 0
    /\ ~discovered
    /\ files = <<>>
    /\ calls = <<>>
    /\ log = <<>>
    /\ DOMAIN written = {}
    /\ made_dirs = {}
    /\ ~summary.printed

C4_Witness ==
  pc = "done" /\ end_reason = "not_found" /\ opts.output_dir # <<>>

\* C5: with an output directory override, discovery and conversion start
\* only once the directory exists; when it cannot be created the run ends
\* with a non-zero status, nothing converted and nothing counted as failed.
C5_OutputDirFirst ==
  /\ (opts.output_dir # <<>> /\ (discovered \/ files # <<>> \/ calls # <<>>)) =>
       is_directory(tree, made_dirs, <<opts.output_dir>>)
  /\ end_reason = "mkdir_failed" =>
       /\ pc = "done"
       /\ exit_status \notin {RUNNING, 0}
       /\ ~discovered /\ files = <<>> /\ calls = <<>> /\ log = <<>>
       /\ DOMAIN written = {}
       /\ error_count = 0

C5_Witness ==
  end_reason = "mkdir_failed" /\ opts.output_dir = T_out

\* C6: a conversion that returned success wrote the complete encoded bytes:
\* its write left the stream in a good state.
C6_SuccessMeansWritten ==
  \A i \in Returned("ok") :
    \E j \in 1..Len(log) : log[j] = [op |-> "write", src |-> calls[i].src, ok |-> TRUE]

\* C7: for every file the codec and file operations happen in the order
\* decode, encode, open, write, each at most once and each only after the
\* previous one succeeded; a failed step ends the conversion as a failure.
C7_StepsInOrder ==
  \A c \in Range(calls) :
    LET ev == EventsOf(c.src)
        order == <<"decode", "encode", "open", "write", "file_size">>
    IN /\ Len(ev) <= 5
       /\ \A k \in 1..Len(ev) :
            /\ ev[k].op = order[k]
            /\ k \in 2..4 => ev[k - 1].ok
       /\ (\E k \in 1..Len(ev) : k <= 3 /\ ~ev[k].ok) => c.result = "failed"

C7_Witness ==
  \E c \in Range(calls) :
    /\ c.result = "failed"
    /\ EventsOf(c.src) = << [op |-> "decode", src |-> c.src, ok |-> TRUE],
                            [op |-> "encode", src |-> c.src, ok |-> FALSE] >>
    /\ Len(calls) >= 2

\* C8: every invocation of convert_heic_to_webp returns a result to the
\* batch loop: no run ends while an invocation is still open.
C8_AlwaysReturns ==
  pc = "done" => Returned("running") = {}

\* C9: discovery over a directory returns exactly the regular files with a
\* .heic/.heif extension (any letter case) among the immediate children, or
\* in the whole subtree when recursive, each once.
IsPrefix(p, q) == Len(p) < Len(q) /\ SubSeq(q, 1, Len(p)) = p
SameIgnoringCase(s, lower) ==
  /\ Len(s) = Len(lower)
  /\ \A i \in 1..Len(s) :
       \/ s[i] = lower[i]
       \/ \E n \in 1..26 : Lowers[n] = lower[i] /\ Uppers[n] = s[i]
HasSourceExtension(name) ==
  /\ Len(name) > 5
  /\ LET suffix == SubSeq(name, Len(name) - 4, Len(name))
     IN SameIgnoringCase(suffix, DOT_HEIC) \/ SameIgnoringCase(suffix, DOT_HEIF)
SourceFilesInScope ==
  { e.path : e \in { x \in Range(tree) :
                       /\ x.kind = "file"
                       /\ HasSourceExtension(x.path[Len(x.path)])
                       /\ IF opts.recursive THEN IsPrefix(input_path, x.path)
                          ELSE parent_path(x.path) = input_path } }
C9_ExactlySourceFiles ==
  discovered =>
    /\ Range(files) = SourceFilesInScope
    /\ Cardinality(Range(files)) = Len(files)

C9_Witness ==
  /\ discovered /\ opts.recursive
  /\ \E f \in Range(files) : Len(f) = 3
  /\ \E f \in Range(files) : Len(f) = 2
  /\ \E e \in Range(tree) : IsPrefix(input_path, e.path) /\ e.path \notin Range(files)

\* C10 as stated: a single-file root is converted only if it passes the
\* classifier, otherwise nothing is converted.
C10_SingleFileClassified ==
  (PastDiscovery /\ ~is_directory(tree, made_dirs, input_path)) =>
    files = IF is_heic_file(tree, input_path) THEN <<input_path>> ELSE <<>>

\* C10 amended: a single-file root is always the one file to convert,
\* whether or not it passes the classifier.
C10_SingleFileAlwaysConverted ==
  (PastDiscovery /\ ~is_directory(tree, made_dirs, input_path)) =>
    files = <<input_path>>

C10_Witness ==
  /\ PastDiscovery
  /\ opts.input = T_ntxt
  /\ ~is_heic_file(tree, input_path)
  /\ files = <<input_path>>

====
